---------------------------- MODULE Spec2Model ----------------------------
(***************************************************************************)
(* A model of the quarter-partitioned news collector (src/collect_news.py) *)
(* and of its task generator (src/generate_tasks.py).                      *)
(*                                                                         *)
(* The module holds several specifications over one set of variables:      *)
(*   SpecQuarters  generate_quarterly_ranges applied to (start_year,       *)
(*                 end_year, now)                                          *)
(*   SpecSearch    one call of naver_search against the search API         *)
(*   SpecCollect   one call of collect_single_keyword_quarter, which pages *)
(*                 through fetch_news_in_quarter                           *)
(*   SpecPhrase    one call of filter_exact_phrase                         *)
(*   SpecParts     the write step of collect_single_keyword_quarter, run   *)
(*                 several times into one parts directory                  *)
(*   SpecMerge     one run of the merge mode: merge_all_parts, then exit   *)
(*   SpecScripts   one call of generate_parallel_scripts                   *)
(*   SpecRun       the generated parallel run, or the run without          *)
(*                 arguments: collection, then the merge                   *)
(*   SpecStartup   one process of collect_news.py from its start           *)
(*   SpecAll       collect_all_keywords_all_quarters, called up to         *)
(*                 MaxCalls times into one parts directory (SpecAllFair:   *)
(*                 the same with the loop's progress assumed)              *)
(*   SpecPaced     one call of collect_all_keywords_all_quarters paging    *)
(*                 through the search API for every pair                   *)
(* Variables that a specification does not use stay at their idle value.   *)
(***************************************************************************)
EXTENDS Integers, Sequences, FiniteSets, TLC

VARIABLES
    \* ---- generate_quarterly_ranges ----
    start_year,     \* argument start_year
    end_year,       \* argument end_year: <<y>>, or <<>> for the default None
    now,            \* the value datetime.now() returns during the call
    quarters,       \* the returned list (<<>> before the call)
    qpc,            \* "call" before the call, "returned" after it
    \* ---- CONFIG and the search API behind it ----
    display,        \* CONFIG collection.display_per_page
    max_items,      \* CONFIG collection.max_items_per_query
    retry_count,    \* CONFIG api.retry_count
    feed,           \* the articles the API holds for the query, in its order
    \* ---- naver_search ----
    s_start,        \* argument start
    s_responses,    \* what each requests.get of the call did
    search_ret,     \* the value returned
    search_log,     \* the requests.get calls and time.sleep calls made, in order
    spc,            \* "call" before the call, "returned" after it
    \* ---- collect_single_keyword_quarter / fetch_news_in_quarter ----
    exact_phrase_match, \* CONFIG filtering.exact_phrase_match
    keyword,        \* argument keyword
    quarter,        \* arguments quarter_name, start_date, end_date
    cpc,            \* "call", "paging" (inside the page loop), "done"
    page,           \* the loop variable page
    pages,          \* pages = ceil(total_to_fetch / display)
    items,          \* the raw items accumulated so far
    events,         \* the naver_search calls and time.sleep calls, in order
    framed,         \* <<items>> once pd.DataFrame(items) is reached (line 241)
    fetch_out,      \* what fetch_news_in_quarter returned or raised
    ret,            \* what collect_single_keyword_quarter returned or raised
    parts,          \* the files of the parts directory
    \* ---- filter_exact_phrase ----
    p_df,           \* argument df
    p_phrase,       \* argument phrase
    p_epm,          \* CONFIG filtering.exact_phrase_match
    p_out,          \* the frame returned
    ppc,            \* "call" before the call, "returned" after it
    \* ---- the parts directory over several runs ----
    d_parts,        \* the files of the parts directory
    d_hist,         \* the runs that reached the write step, in order
    \* ---- merge_all_parts, run by `collect_news.py --mode merge` ----
    m_input_exists, \* the directory input_dir exists
    m_listing,      \* os.listdir(input_dir): the files, in the order listed
    remove_duplicates,  \* CONFIG filtering.remove_duplicates
    dup_column,     \* CONFIG filtering.duplicate_check_column
    m_output,       \* the file at output_file: [exists, rows]
    m_all,          \* <<df_merged>> once pd.concat is reached (line 443)
    m_removed,      \* <<duplicates_removed>> once it is logged (line 454)
    m_ret,          \* what merge_all_parts returned or raised
    mpc,            \* "call", "returned", "exited"
    exit_status,    \* the exit status of the process (-1 while it runs)
    \* ---- generate_parallel_scripts (src/generate_tasks.py) ----
    g_keywords,     \* argument keywords
    g_start_year,   \* argument start_year
    g_now,          \* the value datetime.now() returns during the call
    num_workers,    \* argument num_workers
    g_tasks,        \* all_tasks (<<>> before the call)
    g_scripts,      \* run_worker_<i>.sh, i = 1 .. num_workers: their tasks
    g_master,       \* run_all_workers.sh: its commands, in order
    gpc,            \* "call" before the call, "returned" after it
    \* ---- a collection run followed by the merge ----
    r_mode,         \* "workers": bash run_all_workers.sh; "auto": no argument
    r_scripts,      \* the task list of each collecting process
    r_master,       \* the commands of run_all_workers.sh
    master_pc,      \* the next command of run_all_workers.sh
    w_state,        \* per collecting process: "new", "running", "exited"
    w_pos,          \* per collecting process: the tasks it has finished
    r_parts,        \* the (keyword, quarter) pairs with a part file
    merge_started,  \* merge_all_parts has begun
    r_late,         \* the part files written since the merge began
    \* ---- the start of collect_news.py ----
    CLIENT_ID,      \* os.getenv("NAVER_CLIENT_ID")
    CLIENT_SECRET,  \* os.getenv("NAVER_CLIENT_SECRET")
    b_mode,         \* the command line: "auto", "single", "all", "merge"
    bpc,            \* "import", "main", "exited"
    b_requests,     \* the search requests issued so far
    b_files,        \* the kinds of file written so far
    b_exit,         \* the exit status (-1 while the process runs)
    \* ---- collect_all_keywords_all_quarters ----
    a_keywords,     \* argument keywords
    a_quarters,     \* quarters, the list of line 356
    a_ki,           \* the outer loop's place in keywords
    a_qi,           \* the inner loop's place in quarters
    current_task,   \* current_task
    saved_files,    \* saved_files
    attempted,      \* the pairs this call has attempted, with their outcome
    last_outcome,   \* per pair, how its most recent attempt ended
    a_run,          \* the number of the call into the parts directory
    apc             \* "loop", "pair" (inside the try), "returned"

qvars == <<start_year, end_year, now, quarters, qpc>>
envvars == <<display, max_items, retry_count, feed>>
svars == <<s_start, s_responses, search_ret, search_log, spc>>
cvars == <<exact_phrase_match, keyword, quarter, cpc, page, pages, items,
           events, framed, fetch_out, ret, parts>>
pvars == <<p_df, p_phrase, p_epm, p_out, ppc>>
dvars == <<d_parts, d_hist>>
mvars == <<m_input_exists, m_listing, remove_duplicates, dup_column, m_output,
           m_all, m_removed, m_ret, mpc, exit_status>>
gvars == <<g_keywords, g_start_year, g_now, num_workers, g_tasks, g_scripts,
           g_master, gpc>>
rvars == <<r_mode, r_scripts, r_master, master_pc, w_state, w_pos, r_parts,
           merge_started, r_late>>
bvars == <<CLIENT_ID, CLIENT_SECRET, b_mode, bpc, b_requests, b_files, b_exit>>
avars == <<a_keywords, a_quarters, a_ki, a_qi, current_task, saved_files,
           attempted, last_outcome, a_run, apc>>
xvars == <<mvars, gvars, rvars, bvars, avars>>
vars == <<qvars, envvars, svars, cvars, pvars, dvars, xvars>>

(***************************************************************************)
(* Bounds of the model.                                                    *)
(***************************************************************************)
MinYear == 2023
MaxYear == 2025
MaxTotal == 3       \* articles the API holds for one query
MaxDisplay == 2     \* display_per_page
MaxItems == 3       \* max_items_per_query
MaxRetry == 2       \* retry_count
MaxRows == 2        \* rows of the frame given to filter_exact_phrase
MaxRuns == 3        \* runs into one parts directory
MaxFiles == 3       \* files in the directory merge_all_parts lists
MaxKeywords == 2    \* keywords given to generate_parallel_scripts
MaxWorkers == 3     \* num_workers
MaxRequests == 2    \* search requests of one process

-----------------------------------------------------------------------------
(***************************************************************************)
(* Calendar arithmetic of datetime / timedelta.  A datetime is             *)
(* <<year, month, day, t>>, t = 0 for 00:00:00 and t = 1 for any later     *)
(* time of that day; datetime(y, m, d) is <<y, m, d, 0>>.                  *)
(***************************************************************************)
IsLeap(y) == (y % 4 = 0 /\ y % 100 # 0) \/ y % 400 = 0

DaysInMonth(y, m) ==
    IF m = 2 THEN (IF IsLeap(y) THEN 29 ELSE 28)
    ELSE IF m \in {4, 6, 9, 11} THEN 30 ELSE 31

\* datetime(y, m, d)
Datetime(y, m, d) == <<y, m, d, 0>>

\* dt - timedelta(days=1)
MinusOneDay(dt) ==
    IF dt[3] > 1 THEN <<dt[1], dt[2], dt[3] - 1, dt[4]>>
    ELSE IF dt[2] > 1
         THEN <<dt[1], dt[2] - 1, DaysInMonth(dt[1], dt[2] - 1), dt[4]>>
         ELSE <<dt[1] - 1, 12, 31, dt[4]>>

\* a > b on datetimes
DtGT(a, b) ==
    \/ a[1] > b[1]
    \/ a[1] = b[1] /\ a[2] > b[2]
    \/ a[1] = b[1] /\ a[2] = b[2] /\ a[3] > b[3]
    \/ a[1] = b[1] /\ a[2] = b[2] /\ a[3] = b[3] /\ a[4] > b[4]

\* dt.strftime("%Y-%m-%d"): the date, the time of day dropped.  The string
\* is zero padded, so it orders as the triple <<year, month, day>> does.
Strftime(dt) == <<dt[1], dt[2], dt[3]>>

\* str(n) for a natural number: its decimal digits
RECURSIVE Str(_)
Str(n) ==
    LET digit == <<"0", "1", "2", "3", "4", "5", "6", "7", "8", "9">>
    IN  IF n < 10 THEN <<digit[n + 1]>>
        ELSE Append(Str(n \div 10), digit[(n % 10) + 1])

-----------------------------------------------------------------------------
(***************************************************************************)
(* generate_quarterly_ranges (src/collect_news.py 165-200; the copy in     *)
(* src/generate_tasks.py 9-35 is the same loop with the default end year). *)
(***************************************************************************)
quarter_months ==
    << <<<<"Q", "1">>, 1, 3>>, <<<<"Q", "2">>, 4, 6>>,
       <<<<"Q", "3">>, 7, 9>>, <<<<"Q", "4">>, 10, 12>> >>

\* start_date = datetime(year, start_month, 1)
QuarterStart(year, start_month) == Datetime(year, start_month, 1)

\* end_date: Dec 31 for Q4, else the day before the first of the next month
QuarterEndMut(year, end_month) ==
    IF end_month = 12 THEN Datetime(year, 12, 31)
    ELSE Datetime(year, end_month + 1, 1)
QuarterEnd(year, end_month) ==
    IF end_month = 12 THEN Datetime(year, 12, 31)
    ELSE MinusOneDay(Datetime(year, end_month + 1, 1))

\* if start_date > datetime.now(): break
StartsAfterNowMut(start_date, n) == FALSE
StartsAfterNow(start_date, n) == DtGT(start_date, n)

\* if end_date > datetime.now(): end_date = datetime.now()
ClipToNowMut(end_date, n) == end_date
ClipToNow(end_date, n) == IF DtGT(end_date, n) THEN n ELSE end_date

\* quarter_label = f"{year}_{q_name}"
QuarterLabel(year, q_name) == Str(year) \o <<"_">> \o q_name

\* the inner loop over quarter_months, from its qi-th entry on
RECURSIVE QuarterLoop(_, _, _, _)
QuarterLoop(year, qi, n, acc) ==
    IF qi > Len(quarter_months) THEN acc
    ELSE LET q_name     == quarter_months[qi][1]
             start_date == QuarterStart(year, quarter_months[qi][2])
             end_date   == QuarterEnd(year, quarter_months[qi][3])
         IN  IF StartsAfterNow(start_date, n) THEN acc       \* break
             ELSE QuarterLoop(year, qi + 1, n,
                      Append(acc, [label      |-> QuarterLabel(year, q_name),
                                   start_date |-> Strftime(start_date),
                                   end_date   |-> Strftime(ClipToNow(end_date, n))]))

\* the outer loop: for year in range(start_year, end_year + 1)
RECURSIVE YearLoop(_, _, _, _)
YearLoop(year, last, n, acc) ==
    IF year > last THEN acc
    ELSE YearLoop(year + 1, last, n, QuarterLoop(year, 1, n, acc))

generate_quarterly_ranges(sy, ey, n) ==
    YearLoop(sy, IF ey = <<>> THEN n[1] ELSE ey[1], n, <<>>)

-----------------------------------------------------------------------------
(***************************************************************************)
(* The search API (spec section 6): GET news.json?query=&display=&start=   *)
(* answers {total, items: [{title, link, originallink, description,        *)
(* pubDate}]}.  A text is a sequence of characters; "<b>" and "</b>" are   *)
(* the emphasis tags the API puts around the matched words.  A pubDate is  *)
(* the string's content: fmt = "rfc822" when it has the form               *)
(* "%a, %d %b %Y %H:%M:%S %z" (then day, tod and the +0900 offset are what *)
(* it says), fmt = "other" for any other string.                           *)
(***************************************************************************)
PubDate(f, d, t) == [fmt |-> f, day |-> d, tod |-> t]

RawItem(id, t, pd) ==
    [title |-> t, link |-> id, originallink |-> id,
     description |-> <<"n", "e", "w", "s">>, pubDate |-> pd]

Articles ==
    { RawItem("u1", <<"<b>", "a", "b", "</b>">>,
              PubDate("rfc822", <<MinYear, 3, 31>>, 1)),
      RawItem("u2", <<"<b>", "a", "b", "</b>">>,
              PubDate("other", <<0, 0, 0>>, 0)),
      RawItem("u3", <<"<b>", "a", "</b>", " ", "<b>", "b", "</b>">>,
              PubDate("rfc822", <<MinYear, 3, 31>>, 1)),
      RawItem("u4", <<"<b>", "a", "b", "</b>">>,
              PubDate("rfc822", <<MinYear, 4, 1>>, 0)) }

Feeds == UNION {[1 .. n -> Articles] : n \in 0 .. MaxTotal}

Min(a, b) == IF a < b THEN a ELSE b

\* res.json() of a 2xx answer to (start, display)
ApiBody(f, start, disp) ==
    [total |-> Len(f),
     items |-> SubSeq(f, start, Min(start + disp - 1, Len(f)))]

\* the subclasses of requests.exceptions.RequestException a request raises:
\* network error, timeout, non-2xx answer (raise_for_status)
RequestExceptions == {"ConnectionError", "Timeout", "HTTPError"}

\* what one requests.get + raise_for_status can do: answer, or raise one of
\* the exceptions excs
HttpOutcomes(f, start, disp, excs) ==
    {[status |-> "ok", body |-> ApiBody(f, start, disp)]}
    \cup {[status |-> e, body |-> [total |-> 0, items |-> <<>>]] : e \in excs}

-----------------------------------------------------------------------------
(***************************************************************************)
(* naver_search (src/collect_news.py 122-161).  responses[k] is what the   *)
(* k-th requests.get of this call does.                                    *)
(***************************************************************************)
\* return {"total": 0, "items": []}
EmptyResult == [total |-> 0, items |-> <<>>]

\* the value of a call that ends without a return statement
PyNone == [none |-> TRUE]

\* if attempt < retry_count - 1
MoreAttemptsMut(attempt, rc) == attempt < rc
MoreAttempts(attempt, rc) == attempt < rc - 1

\* for attempt in range(retry_count): try ... except RequestException ...
RECURSIVE RetryLoop(_, _, _, _)
RetryLoop(attempt, rc, responses, log) ==
    IF attempt >= rc THEN [ret |-> PyNone, log |-> log]
    ELSE IF responses[attempt + 1].status = "ok"
         THEN [ret |-> responses[attempt + 1].body, log |-> Append(log, "get")]
         ELSE IF MoreAttempts(attempt, rc)
              THEN RetryLoop(attempt + 1, rc, responses,
                             log \o <<"get", "sleep">>)
              ELSE [ret |-> EmptyResult, log |-> Append(log, "get")]

naver_search(rc, responses) == RetryLoop(0, rc, responses, <<>>)

\* the ways the requests of one call can go
ResponseSeqs(rc, f, start, disp, excs) ==
    [1 .. rc -> HttpOutcomes(f, start, disp, excs)]

-----------------------------------------------------------------------------
(***************************************************************************)
(* Timestamps of pandas.  A Timestamp is [nat, day, tod, tz]: NaT, or a    *)
(* day and time of day (0 = 00:00:00, 1 = later that day) that is tz-aware *)
(* (parsed with %z) or tz-naive.                                           *)
(***************************************************************************)
NaT == [nat |-> TRUE, day |-> <<0, 0, 0>>, tod |-> 0, tz |-> "naive"]

\* pd.to_datetime(s, format="%a, %d %b %Y %H:%M:%S %z", errors="coerce")
ToDatetimeFormat(s) ==
    IF s.fmt = "rfc822"
    THEN [nat |-> FALSE, day |-> s.day, tod |-> s.tod, tz |-> "aware"]
    ELSE NaT

\* pd.to_datetime("YYYY-MM-DD")
ToDatetime(date) == [nat |-> FALSE, day |-> date, tod |-> 0, tz |-> "naive"]

\* the calendar day after a date
DayAfter(a) ==
    IF a[3] < DaysInMonth(a[1], a[2]) THEN <<a[1], a[2], a[3] + 1>>
    ELSE IF a[2] < 12 THEN <<a[1], a[2] + 1, 1>>
    ELSE <<a[1] + 1, 1, 1>>

\* ts + timedelta(days=1)
PlusOneDay(ts) == [ts EXCEPT !.day = DayAfter(ts.day)]

\* a < b on "YYYY-MM-DD" dates
DateLT(a, b) ==
    \/ a[1] < b[1]
    \/ a[1] = b[1] /\ a[2] < b[2]
    \/ a[1] = b[1] /\ a[2] = b[2] /\ a[3] < b[3]

\* a < b, a >= b on timestamps that are not NaT
TsLT(a, b) == DateLT(a.day, b.day) \/ (a.day = b.day /\ a.tod < b.tod)
TsGE(a, b) == ~TsLT(a, b)

\* The dtype of a parsed column: datetime64[ns, UTC+09:00] as soon as one
\* value parsed, datetime64[ns] when every value is NaT.
TzAware(col) == \E i \in 1 .. Len(col) : ~col[i].nat

-----------------------------------------------------------------------------
(***************************************************************************)
(* filter_by_date_range (src/collect_news.py 261-277).  A DataFrame is the *)
(* sequence of its rows.  start and end are tz-naive; pandas refuses an    *)
(* ordering comparison of a tz-aware column with a tz-naive Timestamp      *)
(* (TypeError: Invalid comparison between dtype=datetime64[ns, UTC+09:00]  *)
(* and Timestamp), so line 271 raises as soon as one date has parsed.      *)
(* On an all-NaT column the comparisons are False for every row.           *)
(***************************************************************************)
filter_by_date_range(df, start_date, end_date) ==
    IF df = <<>> THEN [exc |-> "", df |-> df]
    ELSE LET dated  == [i \in 1 .. Len(df) |->
                           [row |-> df[i], parsed_date |-> ToDatetimeFormat(df[i].date)]]
             column == [i \in 1 .. Len(df) |-> dated[i].parsed_date]
             start  == ToDatetime(start_date)
             end    == PlusOneDay(ToDatetime(end_date))
             Mask(r) == /\ ~r.parsed_date.nat
                        /\ TsGE(r.parsed_date, start)
                        /\ TsLT(r.parsed_date, end)
             kept   == SelectSeq(dated, Mask)
         IN  IF TzAware(column)
             THEN [exc |-> "TypeError", df |-> <<>>]
             ELSE [exc |-> "", df |-> [i \in 1 .. Len(kept) |-> kept[i].row]]

-----------------------------------------------------------------------------
(***************************************************************************)
(* filter_exact_phrase (src/collect_news.py 281-292).                      *)
(***************************************************************************)
\* str.contains(phrase, regex=False): phrase in text
ContainsMut(text, phrase) ==
    \E i \in 0 .. Len(text) :
        SubSeq(SelectSeq(text, LAMBDA c : c # " "), i + 1, i + Len(phrase)) = phrase
Contains(text, phrase) ==
    \E i \in 0 .. Len(text) - Len(phrase) :
        SubSeq(text, i + 1, i + Len(phrase)) = phrase

filter_exact_phrase(df, phrase, epm) ==
    IF df = <<>> THEN df
    ELSE IF ~epm THEN df
    ELSE LET MaskTitleOrDesc(r) ==
                 Contains(r.title, phrase) \/ Contains(r.description, phrase)
         IN  SelectSeq(df, MaskTitleOrDesc)

-----------------------------------------------------------------------------
(***************************************************************************)
(* fetch_news_in_quarter (204-257) and collect_single_keyword_quarter      *)
(* (296-337).                                                              *)
(***************************************************************************)
\* str.replace(r"</?b>", "", regex=True)
StripB(text) == SelectSeq(text, LAMBDA c : c \notin {"<b>", "</b>"})

\* lines 243-250: keep and rename the five columns, strip the tags
Normalize(item) ==
    [title |-> StripB(item.title), url |-> item.link,
     source_url |-> item.originallink,
     description |-> StripB(item.description), date |-> item.pubDate]

NormalizeAll(its) == [i \in 1 .. Len(its) |-> Normalize(its[i])]

\* total_to_fetch = min(total_available, max_items)
TotalToFetch(total_available, cap) == Min(total_available, cap)

\* pages = ceil(total_to_fetch / display)
PagesNeededMut(total_to_fetch, disp) == total_to_fetch \div disp
PagesNeeded(total_to_fetch, disp) == (total_to_fetch + disp - 1) \div disp

\* start = (page - 1) * display + 1
PageStart(pg, disp) == (pg - 1) * disp + 1

\* lines 241-257: the frame of the accumulated items, normalized and filtered
FetchTail(its, q) ==
    IF its = <<>> THEN [exc |-> "", df |-> <<>>]
    ELSE filter_by_date_range(NormalizeAll(its), q.start_date, q.end_date)

output_dir == <<"output_parts">>

\* filename = f"{keyword}_{quarter_name}.csv"; os.path.join(output_dir, filename)
PartFilePathMut(dir, kw, quarter_name) == dir \o <<"/">> \o kw \o <<".csv">>
PartFilePath(dir, kw, quarter_name) ==
    dir \o <<"/">> \o kw \o <<"_">> \o quarter_name \o <<".csv">>

RetPending == [kind |-> "pending", path |-> <<>>, exc |-> ""]
RetNone == [kind |-> "None", path |-> <<>>, exc |-> ""]
RetPath(path) == [kind |-> "path", path |-> path, exc |-> ""]
RetRaised(e) == [kind |-> "raised", path |-> <<>>, exc |-> e]

\* lines 321-337: tag the rows, write the file (to_csv replaces a file of
\* the same path), return the path
WritePart(dir_files, df_exact, kw, quarter_name) ==
    LET tagged == [i \in 1 .. Len(df_exact) |->
                      [title |-> df_exact[i].title, url |-> df_exact[i].url,
                       source_url |-> df_exact[i].source_url,
                       description |-> df_exact[i].description,
                       date |-> df_exact[i].date,
                       quarter |-> quarter_name, keyword |-> kw]]
        filepath == PartFilePath(output_dir, kw, quarter_name)
    IN  [ret   |-> RetPath(filepath),
         parts |-> {f \in dir_files : f.path # filepath}
                      \cup {[path |-> filepath, rows |-> tagged]}]

\* lines 309-337, given what fetch_news_in_quarter returned or raised
CollectTail(fetched, kw, q, epm, dir_files) ==
    IF fetched.exc # "" THEN [ret |-> RetRaised(fetched.exc), parts |-> dir_files]
    ELSE IF fetched.df = <<>> THEN [ret |-> RetNone, parts |-> dir_files]
    ELSE LET df_exact == filter_exact_phrase(fetched.df, kw, epm)
         IN  IF df_exact = <<>> THEN [ret |-> RetNone, parts |-> dir_files]
             ELSE WritePart(dir_files, df_exact, kw, q.label)

\* naver_search treats every RequestException alike (one except clause,
\* line 155), so the calls made while paging raise one of them
FetchExceptions == {"Timeout"}

\* count: the items the call returned (-1 for None)
SearchEvent(start, js) ==
    [op |-> "search", start |-> start,
     served |-> (js = ApiBody(feed, start, display)),
     count |-> IF js = PyNone THEN -1 ELSE Len(js.items)]
SleepEvent == [op |-> "sleep", start |-> 0, served |-> FALSE, count |-> 0]

\* the end of fetch_news_in_quarter from line 241 on, and of its caller
Finish(its, evs) ==
    /\ items' = its
    /\ events' = evs
    /\ framed' = <<its>>
    /\ fetch_out' = FetchTail(its, quarter)
    /\ ret' = CollectTail(FetchTail(its, quarter), keyword, quarter,
                          exact_phrase_match, parts).ret
    /\ parts' = CollectTail(FetchTail(its, quarter), keyword, quarter,
                            exact_phrase_match, parts).parts
    /\ cpc' = "done"

\* first.get / js.get on the None of a naver_search that made no attempt
RaiseAttributeError(evs) ==
    /\ events' = evs
    /\ fetch_out' = [exc |-> "AttributeError", df |-> <<>>]
    /\ ret' = RetRaised("AttributeError")
    /\ cpc' = "done"
    /\ UNCHANGED <<items, framed, parts>>

\* lines 213-223 and, when one page is all, the rest of the call
FirstPage ==
    /\ cpc = "call"
    /\ \E responses \in ResponseSeqs(retry_count, feed, 1, display, FetchExceptions) :
         LET first == naver_search(retry_count, responses).ret
             evs   == Append(events, SearchEvent(1, first))
         IN  IF first = PyNone
             THEN RaiseAttributeError(evs) /\ UNCHANGED <<page, pages>>
             ELSE LET total_to_fetch == TotalToFetch(first.total, max_items)
                  IN  IF total_to_fetch = 0
                      THEN /\ items' = first.items
                           /\ events' = evs
                           /\ fetch_out' = [exc |-> "", df |-> <<>>]
                           /\ ret' = RetNone
                           /\ cpc' = "done"
                           /\ UNCHANGED <<page, pages, framed, parts>>
                      ELSE /\ pages' = PagesNeeded(total_to_fetch, display)
                           /\ page' = 2
                           /\ IF PagesNeeded(total_to_fetch, display) < 2
                              THEN Finish(first.items, evs)
                              ELSE /\ items' = first.items
                                   /\ events' = evs
                                   /\ cpc' = "paging"
                                   /\ UNCHANGED <<framed, fetch_out, ret, parts>>
    /\ UNCHANGED <<exact_phrase_match, keyword, quarter, envvars, qvars, svars,
                   pvars, dvars, xvars>>

\* one iteration of the loop of lines 225-239 and, when it is the last, the
\* rest of the call
NextPage ==
    /\ cpc = "paging"
    /\ \E responses \in
            ResponseSeqs(retry_count, feed, PageStart(page, display), display,
                         FetchExceptions) :
         LET start == PageStart(page, display)
             js    == naver_search(retry_count, responses).ret
             evs   == events \o <<SleepEvent, SearchEvent(start, js)>>
         IN  IF js = PyNone
             THEN RaiseAttributeError(evs) /\ UNCHANGED page
             ELSE LET batch == js.items
                      more  == items \o batch
                  IN  IF batch = <<>>
                      THEN Finish(items, evs) /\ UNCHANGED page
                      ELSE IF Len(more) >= max_items
                      THEN Finish(SubSeq(more, 1, max_items), evs)
                           /\ UNCHANGED page
                      ELSE IF page + 1 > pages
                      THEN Finish(more, evs) /\ UNCHANGED page
                      ELSE /\ items' = more
                           /\ events' = evs
                           /\ page' = page + 1
                           /\ UNCHANGED <<cpc, framed, fetch_out, ret, parts>>
    /\ UNCHANGED <<pages, exact_phrase_match, keyword, quarter, envvars,
                   qvars, svars, pvars, dvars, xvars>>

-----------------------------------------------------------------------------
(***************************************************************************)
(* merge_all_parts (src/collect_news.py 398-477).  A CSV file is the       *)
(* sequence of its data rows, a row a record of cells (texts).  read_csv   *)
(* reads an empty cell, and a cell that spells a missing value, as NaN;    *)
(* to_csv writes NaN as an empty cell.  A frame is the sequence of its     *)
(* rows, with NaN for a missing value.                                     *)
(***************************************************************************)
NaN == "<NaN>"

\* the default na_values of read_csv that the cells of the model can spell
NaStrings == {"", "NA"}

\* pd.read_csv(filepath): the frame of a file's rows
ReadCsv(rows) ==
    [i \in 1 .. Len(rows) |->
        [c \in DOMAIN rows[i] |->
            IF rows[i][c] \in NaStrings THEN NaN ELSE rows[i][c]]]

\* df.to_csv(path, index=False): the rows written for a frame
ToCsv(df) ==
    [i \in 1 .. Len(df) |->
        [c \in DOMAIN df[i] |-> IF df[i][c] = NaN THEN "" ELSE df[i][c]]]

\* csv_files = [f for f in os.listdir(input_dir) if f.endswith('.csv')]
CsvFiles(listing) == SelectSeq(listing, LAMBDA f : f.ext = "csv")

\* lines 426-436: read each file, keep the frames that load, skip the others
LoadFilesMut(csv_files) ==
    LET bad == {i \in 1 .. Len(csv_files) : ~csv_files[i].loads}
        n   == IF bad = {} THEN Len(csv_files)
               ELSE (CHOOSE i \in bad : \A j \in bad : i <= j) - 1
    IN  [i \in 1 .. n |-> ReadCsv(csv_files[i].rows)]
LoadFiles(csv_files) ==
    LET loaded == SelectSeq(csv_files, LAMBDA f : f.loads)
    IN  [i \in 1 .. Len(loaded) |-> ReadCsv(loaded[i].rows)]

\* if not all_dfs: ... return
NothingLoadedMut(all_dfs) == FALSE
NothingLoaded(all_dfs) == all_dfs = <<>>

\* pd.concat(all_dfs, ignore_index=True)
RECURSIVE Concat(_)
Concat(all_dfs) ==
    IF all_dfs = <<>> THEN <<>>
    ELSE Head(all_dfs) \o Concat(Tail(all_dfs))

\* df.drop_duplicates(subset=[col]).reset_index(drop=True): keep="first"
DropDuplicatesLast(df, col) ==
    LET Kept(i) == \A j \in i + 1 .. Len(df) : df[j][col] # df[i][col]
        idx == {i \in 1 .. Len(df) : Kept(i)}
        Nth(k) == CHOOSE i \in idx : Cardinality({j \in idx : j <= i}) = k
    IN  [k \in 1 .. Cardinality(idx) |-> df[Nth(k)]]
DropDuplicatesAdjacent(df, col) ==
    LET Kept(i) == i = 1 \/ df[i - 1][col] # df[i][col]
        idx == {i \in 1 .. Len(df) : Kept(i)}
        Nth(k) == CHOOSE i \in idx : Cardinality({j \in idx : j <= i}) = k
    IN  [k \in 1 .. Cardinality(idx) |-> df[Nth(k)]]
RECURSIVE DropLoop(_, _, _, _)
DropLoop(df, col, i, acc) ==
    IF i > Len(df) THEN acc
    ELSE IF \E k \in 1 .. Len(acc) : acc[k][col] = df[i][col]
         THEN DropLoop(df, col, i + 1, acc)
         ELSE DropLoop(df, col, i + 1, Append(acc, df[i]))
DropDuplicates(df, col) == DropLoop(df, col, 1, <<>>)

MergePending == [kind |-> "pending", exc |-> ""]
MergeNone == [kind |-> "None", exc |-> ""]
MergePath == [kind |-> "path", exc |-> ""]
MergeRaised(e) == [kind |-> "raised", exc |-> e]

AbsentFile == [exists |-> FALSE, rows |-> <<>>]

\* lines 442-459 for the frames that loaded: concatenate, drop duplicates
\* when configured, write the merged file
MergeLoaded(all_dfs, rd, col) ==
    LET df_merged == Concat(all_dfs)
        deduped   == IF rd THEN DropDuplicates(df_merged, col) ELSE df_merged
    IN  [ret     |-> MergePath,
         all     |-> <<df_merged>>,
         removed |-> IF rd THEN <<Len(df_merged) - Len(deduped)>> ELSE <<>>,
         output  |-> [exists |-> TRUE, rows |-> ToCsv(deduped)]]

\* merge_all_parts(input_dir, output_file), out the file at output_file
merge_all_parts(exists, listing, rd, col, out) ==
    LET untouched(r) == [ret |-> r, all |-> <<>>, removed |-> <<>>, output |-> out]
        csv_files == CsvFiles(listing)
        all_dfs   == LoadFiles(csv_files)
    IN  IF ~exists THEN untouched(MergeRaised("FileNotFoundError"))
        ELSE IF csv_files = <<>> THEN untouched(MergeNone)
        ELSE IF NothingLoaded(all_dfs) THEN untouched(MergeNone)
        ELSE MergeLoaded(all_dfs, rd, col)

-----------------------------------------------------------------------------
(***************************************************************************)
(* generate_parallel_scripts (src/generate_tasks.py 147-219).  A worker    *)
(* script is the sequence of the tasks whose commands it holds; the master *)
(* script is the sequence of its commands.                                 *)
(***************************************************************************)
\* generate_quarterly_ranges(start_year) of generate_tasks.py: the loop of
\* collect_news.py with the end year datetime.now().year
TaskQuarters(sy, n) == generate_quarterly_ranges(sy, <<>>, n)

\* lines 157-169: one task per keyword and quarter, keywords outermost,
\* task_id counting from 1
AllTasks(keywords, qs) ==
    [t \in 1 .. Len(keywords) * Len(qs) |->
        [task_id    |-> t,
         keyword    |-> keywords[((t - 1) \div Len(qs)) + 1],
         quarter    |-> qs[((t - 1) % Len(qs)) + 1].label,
         start_date |-> qs[((t - 1) % Len(qs)) + 1].start_date,
         end_date   |-> qs[((t - 1) % Len(qs)) + 1].end_date]]

\* tasks_per_worker = len(all_tasks) // num_workers
TasksPerWorker(n_tasks, nw) == n_tasks \div nw

\* start_idx = worker_id * tasks_per_worker
StartIdx(worker_id, tpw) == worker_id * tpw

\* lines 176-180: the last worker takes every task that is left
EndIdxMut(worker_id, nw, tpw, n_tasks) == (worker_id + 1) * tpw
EndIdx(worker_id, nw, tpw, n_tasks) ==
    IF worker_id = nw - 1 THEN n_tasks ELSE (worker_id + 1) * tpw

\* seq[a:b] for 0 <= a, 0 <= b
PySlice(seq, a, b) == SubSeq(seq, a + 1, Min(b, Len(seq)))

\* lines 182-199: the script of worker worker_id (0-based)
WorkerScript(all_tasks, worker_id, nw) ==
    LET tpw == TasksPerWorker(Len(all_tasks), nw)
    IN  [filename |-> <<"run_worker_">> \o Str(worker_id + 1) \o <<".sh">>,
         tasks    |-> PySlice(all_tasks, StartIdx(worker_id, tpw),
                              EndIdx(worker_id, nw, tpw, Len(all_tasks)))]

\* lines 204-216: start every worker script in the background, wait, merge
MasterScriptMut(nw) ==
    [w \in 1 .. nw |-> [cmd |-> "bash &", worker |-> w]]
    \o <<[cmd |-> "merge", worker |-> 0]>>
MasterScript(nw) ==
    [w \in 1 .. nw |-> [cmd |-> "bash &", worker |-> w]]
    \o <<[cmd |-> "wait", worker |-> 0], [cmd |-> "merge", worker |-> 0]>>

generate_parallel_scripts(keywords, sy, nw, n) ==
    LET all_tasks == AllTasks(keywords, TaskQuarters(sy, n))
    IN  [all_tasks |-> all_tasks,
         scripts   |-> [w \in 1 .. nw |-> WorkerScript(all_tasks, w - 1, nw)],
         master    |-> MasterScript(nw)]

-----------------------------------------------------------------------------
(***************************************************************************)
(* The start of collect_news.py (lines 71-86 and 118): the credentials are *)
(* read from the environment when the module is loaded, before logging is  *)
(* set up and before the code under `if __name__ == "__main__"` runs.      *)
(* Absent is the None of os.getenv for a variable that is not set.         *)
(***************************************************************************)
Absent == "<None>"

\* if not CLIENT_ID or not CLIENT_SECRET
CredentialsMissingMut(id, secret) == id \in {Absent, ""}
CredentialsMissing(id, secret) == id \in {Absent, ""} \/ secret \in {Absent, ""}

-----------------------------------------------------------------------------
(***************************************************************************)
(* Idle values of the variables a specification does not use.              *)
(***************************************************************************)
IdleQuarters ==
    /\ start_year = MinYear /\ end_year = <<>> /\ now = <<MinYear, 1, 1, 0>>
    /\ quarters = <<>> /\ qpc = "idle"

IdleSearch ==
    /\ s_start = 1 /\ s_responses = <<>> /\ search_ret = PyNone /\ search_log = <<>> /\ spc = "idle"

IdleEnv ==
    /\ display = 1 /\ max_items = 1 /\ retry_count = 1 /\ feed = <<>>

IdleCollect ==
    /\ exact_phrase_match = TRUE /\ keyword = <<>>
    /\ quarter = [label |-> <<>>, start_date |-> <<MinYear, 1, 1>>,
                  end_date |-> <<MinYear, 1, 1>>]
    /\ cpc = "idle" /\ page = 0 /\ pages = 0 /\ items = <<>>
    /\ events = <<>> /\ framed = <<>>
    /\ fetch_out = [exc |-> "", df |-> <<>>]
    /\ ret = RetPending /\ parts = {}

IdlePhrase ==
    /\ p_df = <<>> /\ p_phrase = <<>> /\ p_epm = TRUE /\ p_out = <<>>
    /\ ppc = "idle"

IdleParts == d_parts = {} /\ d_hist = <<>>

IdleMerge ==
    /\ m_input_exists = TRUE /\ m_listing = <<>>
    /\ remove_duplicates = TRUE /\ dup_column = "url"
    /\ m_output = AbsentFile /\ m_all = <<>> /\ m_removed = <<>>
    /\ m_ret = MergePending /\ mpc = "idle" /\ exit_status = -1

IdleScripts ==
    /\ g_keywords = <<>> /\ g_start_year = MinYear /\ g_now = <<MinYear, 1, 1, 0>>
    /\ num_workers = 1 /\ g_tasks = <<>> /\ g_scripts = <<>> /\ g_master = <<>>
    /\ gpc = "idle"

IdleRun ==
    /\ r_mode = "idle" /\ r_scripts = <<>> /\ r_master = <<>> /\ master_pc = 1
    /\ w_state = <<>> /\ w_pos = <<>> /\ r_parts = {}
    /\ merge_started = FALSE /\ r_late = {}

IdleStartup ==
    /\ CLIENT_ID = "id" /\ CLIENT_SECRET = "secret" /\ b_mode = "auto"
    /\ bpc = "idle" /\ b_requests = 0 /\ b_files = {} /\ b_exit = -1

IdleAll ==
    /\ a_keywords = <<>> /\ a_quarters = <<>> /\ a_ki = 1 /\ a_qi = 1
    /\ current_task = 0 /\ saved_files = <<>> /\ attempted = <<>>
    /\ last_outcome = {} /\ a_run = 1 /\ apc = "idle"

IdleX == IdleMerge /\ IdleScripts /\ IdleRun /\ IdleStartup /\ IdleAll

-----------------------------------------------------------------------------
(***************************************************************************)
(* SpecQuarters: one call of generate_quarterly_ranges.                    *)
(***************************************************************************)
Years == MinYear .. MaxYear

Clock ==
    {<<y, m, d, t>> : y \in Years, m \in 1..12, d \in 1..31, t \in {0, 1}}

Instants == {n \in Clock : n[3] <= DaysInMonth(n[1], n[2])}

InitQuarters ==
    /\ start_year \in MinYear .. MaxYear + 1
    /\ end_year \in {<<>>} \cup {<<y>> : y \in MinYear .. MaxYear + 1}
    /\ now \in Instants
    /\ quarters = <<>>
    /\ qpc = "call"
    /\ IdleEnv /\ IdleSearch /\ IdleCollect /\ IdlePhrase /\ IdleParts /\ IdleX

CallGenerateQuarterlyRanges ==
    /\ qpc = "call"
    /\ quarters' = generate_quarterly_ranges(start_year, end_year, now)
    /\ qpc' = "returned"
    /\ UNCHANGED <<start_year, end_year, now, envvars, svars, cvars, pvars,
                   dvars, xvars>>

NextQuarters == CallGenerateQuarterlyRanges

SpecQuarters == InitQuarters /\ [][NextQuarters]_vars

-----------------------------------------------------------------------------
(***************************************************************************)
(* SpecSearch: one call of naver_search.                                   *)
(***************************************************************************)
InitSearch ==
    /\ retry_count \in 0 .. MaxRetry
    /\ display \in 1 .. MaxDisplay
    /\ max_items = 1
    /\ feed \in Feeds
    /\ s_start \in {1, display + 1}
    /\ s_responses = <<>>
    /\ search_ret = PyNone
    /\ search_log = <<>>
    /\ spc = "call"
    /\ IdleQuarters /\ IdleCollect /\ IdlePhrase /\ IdleParts /\ IdleX

CallNaverSearch ==
    /\ spc = "call"
    /\ \E responses \in ResponseSeqs(retry_count, feed, s_start, display, RequestExceptions) :
          /\ s_responses' = responses
          /\ search_ret' = naver_search(retry_count, responses).ret
          /\ search_log' = naver_search(retry_count, responses).log
    /\ spc' = "returned"
    /\ UNCHANGED <<s_start, envvars, qvars, cvars, pvars, dvars, xvars>>

NextSearch == CallNaverSearch

SpecSearch == InitSearch /\ [][NextSearch]_vars

-----------------------------------------------------------------------------
(***************************************************************************)
(* SpecCollect: one call of collect_single_keyword_quarter for a pair      *)
(* (keyword, quarter), the quarter one of those generate_quarterly_ranges  *)
(* returns on May 10 of MinYear (Q1 whole, Q2 clipped).                    *)
(***************************************************************************)
Keywords == {<<"a", "b">>, <<"a">>}

CollectQuarters ==
    generate_quarterly_ranges(MinYear, <<>>, <<MinYear, 5, 10, 1>>)

InitCollect ==
    /\ display \in 1 .. MaxDisplay
    /\ max_items \in 1 .. MaxItems
    /\ retry_count \in 0 .. MaxRetry
    /\ feed \in Feeds
    /\ exact_phrase_match \in BOOLEAN
    /\ keyword \in Keywords
    /\ quarter \in {CollectQuarters[i] : i \in 1 .. Len(CollectQuarters)}
    /\ cpc = "call" /\ page = 0 /\ pages = 0 /\ items = <<>>
    /\ events = <<>> /\ framed = <<>>
    /\ fetch_out = [exc |-> "", df |-> <<>>]
    /\ ret = RetPending /\ parts = {}
    /\ IdleQuarters /\ IdleSearch /\ IdlePhrase /\ IdleParts /\ IdleX

NextCollect == FirstPage \/ NextPage

SpecCollect == InitCollect /\ [][NextCollect]_vars

-----------------------------------------------------------------------------
(***************************************************************************)
(* SpecPhrase: one call of filter_exact_phrase on a frame of up to MaxRows *)
(* rows.                                                                   *)
(***************************************************************************)
Texts ==
    { <<>>, <<"a", "b">>, <<"a", " ", "b">>, <<"A", "b">>, <<"x", "a", "b">> }

PhraseRows == {[title |-> t, description |-> d] : t \in Texts, d \in Texts}

Phrases == { <<"a", "b">>, <<"b">> }

InitPhrase ==
    /\ p_df \in UNION {[1 .. n -> PhraseRows] : n \in 0 .. MaxRows}
    /\ p_phrase \in Phrases
    /\ p_epm \in BOOLEAN
    /\ p_out = <<>>
    /\ ppc = "call"
    /\ IdleQuarters /\ IdleEnv /\ IdleSearch /\ IdleCollect /\ IdleParts /\ IdleX

CallFilterExactPhrase ==
    /\ ppc = "call"
    /\ p_out' = filter_exact_phrase(p_df, p_phrase, p_epm)
    /\ ppc' = "returned"
    /\ UNCHANGED <<p_df, p_phrase, p_epm, qvars, envvars, svars, cvars, dvars,
                   xvars>>

NextPhrase == CallFilterExactPhrase

SpecPhrase == InitPhrase /\ [][NextPhrase]_vars

-----------------------------------------------------------------------------
(***************************************************************************)
(* SpecParts: the write step of collect_single_keyword_quarter (lines      *)
(* 321-337) run up to MaxRuns times into one parts directory, each run for *)
(* a configured keyword and a generated quarter label, with a non-empty    *)
(* filtered frame.                                                         *)
(***************************************************************************)
PartKeywords == { <<"a">>, <<"a", "b">>, <<"a", "_", "Q", "1">> }

PartPairs ==
    {<<k, CollectQuarters[i].label>> :
        k \in PartKeywords, i \in 1 .. Len(CollectQuarters)}

PartFrames == {<<Normalize(a)>> : a \in {x \in Articles : x.link \in {"u1", "u4"}}}

InitParts ==
    /\ d_parts = {}
    /\ d_hist = <<>>
    /\ IdleQuarters /\ IdleEnv /\ IdleSearch /\ IdleCollect /\ IdlePhrase /\ IdleX

WriteRun ==
    /\ Len(d_hist) < MaxRuns
    /\ \E pair \in PartPairs, df_exact \in PartFrames :
          /\ d_parts' = WritePart(d_parts, df_exact, pair[1], pair[2]).parts
          /\ d_hist' = Append(d_hist,
                 [pair |-> pair, df |-> df_exact,
                  ret |-> WritePart(d_parts, df_exact, pair[1], pair[2]).ret])
    /\ UNCHANGED <<qvars, envvars, svars, cvars, pvars, xvars>>

NextParts == WriteRun

SpecParts == InitParts /\ [][NextParts]_vars

-----------------------------------------------------------------------------
(***************************************************************************)
(* SpecMerge: one run of `python collect_news.py --mode merge` (main,      *)
(* lines 525-527): merge_all_parts over a directory of up to MaxFiles      *)
(* files, then the exit of the process.                                    *)
(***************************************************************************)
PartRow(u, k, d) == [url |-> u, keyword |-> k, description |-> d]

\* the files a parts directory can hold: part files that load (two of them
\* share the url u1 under different keywords, two share one whole record),
\* a part file with no rows, a .csv file that fails to load, another file
PartFileKinds ==
    { [ext |-> "csv", loads |-> TRUE,
       rows |-> <<PartRow("u1", "a", "d"), PartRow("u2", "a", "")>>],
      [ext |-> "csv", loads |-> TRUE,
       rows |-> <<PartRow("u1", "b", "d"), PartRow("u3", "b", "NA")>>],
      [ext |-> "csv", loads |-> TRUE, rows |-> <<PartRow("u2", "a", "")>>],
      [ext |-> "csv", loads |-> TRUE, rows |-> <<PartRow("u3", "b", "NA")>>],
      [ext |-> "csv", loads |-> TRUE, rows |-> <<>>],
      [ext |-> "csv", loads |-> FALSE, rows |-> <<>>],
      [ext |-> "log", loads |-> FALSE, rows |-> <<>>] }

Listings == UNION {[1 .. n -> PartFileKinds] : n \in 0 .. MaxFiles}

\* the merged file of an earlier run
OldMerged == [exists |-> TRUE, rows |-> <<PartRow("u0", "a", "old")>>]

InitMerge ==
    /\ m_input_exists \in BOOLEAN
    /\ m_listing \in Listings
    /\ (~m_input_exists => m_listing = <<>>)
    /\ remove_duplicates \in BOOLEAN
    /\ dup_column \in {"url", "keyword"}
    /\ m_output \in {AbsentFile, OldMerged}
    /\ m_all = <<>> /\ m_removed = <<>>
    /\ m_ret = MergePending
    /\ mpc = "call"
    /\ exit_status = -1
    /\ IdleQuarters /\ IdleEnv /\ IdleSearch /\ IdleCollect /\ IdlePhrase
    /\ IdleParts /\ IdleScripts /\ IdleRun /\ IdleStartup /\ IdleAll

\* main, mode "merge": merge_all_parts(args.output_dir)
CallMergeAllParts ==
    /\ mpc = "call"
    /\ LET r == merge_all_parts(m_input_exists, m_listing, remove_duplicates,
                                dup_column, m_output)
       IN  /\ m_ret' = r.ret
           /\ m_all' = r.all
           /\ m_removed' = r.removed
           /\ m_output' = r.output
    /\ mpc' = "returned"
    /\ UNCHANGED <<m_input_exists, m_listing, remove_duplicates, dup_column,
                   exit_status>>
    /\ UNCHANGED <<qvars, envvars, svars, cvars, pvars, dvars, gvars, rvars,
                   bvars, avars>>

\* the interpreter ends: status 0 after main returns, 1 after an exception
\* that nothing caught
ExitProcess ==
    /\ mpc = "returned"
    /\ exit_status' = IF m_ret.kind = "raised" THEN 1 ELSE 0
    /\ mpc' = "exited"
    /\ UNCHANGED <<m_input_exists, m_listing, remove_duplicates, dup_column,
                   m_output, m_all, m_removed, m_ret>>
    /\ UNCHANGED <<qvars, envvars, svars, cvars, pvars, dvars, gvars, rvars,
                   bvars, avars>>

NextMerge == CallMergeAllParts \/ ExitProcess

SpecMerge == InitMerge /\ [][NextMerge]_vars

-----------------------------------------------------------------------------
(***************************************************************************)
(* SpecScripts: one call of generate_parallel_scripts.                     *)
(***************************************************************************)
KeywordLists == UNION {[1 .. n -> {<<"a">>, <<"b">>}] : n \in 0 .. MaxKeywords}

\* instants in the first, second and last quarter of a year
TaskInstants ==
    {<<MinYear, 2, 15, 1>>, <<MinYear, 5, 10, 1>>, <<MinYear, 12, 31, 1>>}

InitScripts ==
    /\ g_keywords \in KeywordLists
    /\ g_start_year \in {MinYear, MinYear + 1}
    /\ g_now \in TaskInstants
    /\ num_workers \in 1 .. MaxWorkers
    /\ g_tasks = <<>> /\ g_scripts = <<>> /\ g_master = <<>>
    /\ gpc = "call"
    /\ IdleQuarters /\ IdleEnv /\ IdleSearch /\ IdleCollect /\ IdlePhrase
    /\ IdleParts /\ IdleMerge /\ IdleRun /\ IdleStartup /\ IdleAll

CallGenerateParallelScripts ==
    /\ gpc = "call"
    /\ LET r == generate_parallel_scripts(g_keywords, g_start_year,
                                          num_workers, g_now)
       IN  /\ g_tasks' = r.all_tasks
           /\ g_scripts' = r.scripts
           /\ g_master' = r.master
    /\ gpc' = "returned"
    /\ UNCHANGED <<g_keywords, g_start_year, g_now, num_workers>>
    /\ UNCHANGED <<qvars, envvars, svars, cvars, pvars, dvars, mvars, rvars,
                   bvars, avars>>

NextScripts == CallGenerateParallelScripts

SpecScripts == InitScripts /\ [][NextScripts]_vars

-----------------------------------------------------------------------------
(***************************************************************************)
(* SpecRun: a collection run followed by the merge.  In mode "workers" the *)
(* shell runs run_all_workers.sh as generate_parallel_scripts wrote it:    *)
(* each `bash run_worker_<i>.sh &` starts a process that runs the commands *)
(* of its script one after the other, `wait` returns when no background    *)
(* process is left, and the last command starts the merge.  In mode "auto" *)
(* collect_news.py runs without arguments (lines 529-534): one process     *)
(* loops over all tasks and then calls merge_all_parts.  A task may or may *)
(* not leave a part file.                                                  *)
(***************************************************************************)
RunKeywords == { <<<<"a">>>>, <<<<"a">>, <<"b">>>> }

RunNow == <<MinYear, 5, 10, 1>>

TaskPair(task) == <<task.keyword, task.quarter>>

InitRun ==
    /\ r_mode \in {"workers", "auto"}
    /\ \E keywords \in RunKeywords, nw \in 1 .. MaxWorkers :
          LET g == generate_parallel_scripts(keywords, MinYear, nw, RunNow)
          IN  IF r_mode = "workers"
              THEN /\ r_scripts = [w \in 1 .. nw |-> g.scripts[w].tasks]
                   /\ r_master = g.master
                   /\ w_state = [w \in 1 .. nw |-> "new"]
                   /\ w_pos = [w \in 1 .. nw |-> 0]
              ELSE /\ nw = 1
                   /\ r_scripts = <<g.all_tasks>>
                   /\ r_master = <<>>
                   /\ w_state = <<"running">>
                   /\ w_pos = <<0>>
    /\ master_pc = 1
    /\ r_parts = {}
    /\ merge_started = FALSE
    /\ r_late = {}
    /\ IdleQuarters /\ IdleEnv /\ IdleSearch /\ IdleCollect /\ IdlePhrase
    /\ IdleParts /\ IdleMerge /\ IdleScripts /\ IdleStartup /\ IdleAll

RunOthers ==
    <<qvars, envvars, svars, cvars, pvars, dvars, mvars, gvars, bvars, avars>>

\* the next command of the master script is cmd
AtCommand(cmd) ==
    /\ r_mode = "workers"
    /\ master_pc <= Len(r_master)
    /\ r_master[master_pc].cmd = cmd

\* bash run_worker_<w>.sh &
SpawnWorker ==
    /\ AtCommand("bash &")
    /\ w_state' = [w_state EXCEPT ![r_master[master_pc].worker] = "running"]
    /\ master_pc' = master_pc + 1
    /\ UNCHANGED <<r_mode, r_scripts, r_master, w_pos, r_parts, merge_started,
                   r_late, RunOthers>>

\* wait: returns once every background process has exited
Wait ==
    /\ AtCommand("wait")
    /\ \A w \in 1 .. Len(w_state) : w_state[w] # "running"
    /\ master_pc' = master_pc + 1
    /\ UNCHANGED <<r_mode, r_scripts, r_master, w_state, w_pos, r_parts,
                   merge_started, r_late, RunOthers>>

\* python collect_news.py --mode merge
StartMerge ==
    /\ AtCommand("merge")
    /\ merge_started' = TRUE
    /\ master_pc' = master_pc + 1
    /\ UNCHANGED <<r_mode, r_scripts, r_master, w_state, w_pos, r_parts,
                   r_late, RunOthers>>

\* a collecting process runs its next task to the end
RunTask(w) ==
    /\ w_state[w] = "running"
    /\ w_pos[w] < Len(r_scripts[w])
    /\ \E wrote \in BOOLEAN :
          LET pair == TaskPair(r_scripts[w][w_pos[w] + 1])
          IN  /\ r_parts' = IF wrote THEN r_parts \cup {pair} ELSE r_parts
              /\ r_late' = IF wrote /\ merge_started THEN r_late \cup {pair}
                           ELSE r_late
    /\ w_pos' = [w_pos EXCEPT ![w] = w_pos[w] + 1]

\* one command of a worker script: python collect_news.py --mode single ...
WorkerTask ==
    /\ r_mode = "workers"
    /\ \E w \in 1 .. Len(w_state) : RunTask(w)
    /\ UNCHANGED <<r_mode, r_scripts, r_master, master_pc, w_state,
                   merge_started, RunOthers>>

\* a worker script ends after its last command
WorkerExit ==
    /\ r_mode = "workers"
    /\ \E w \in 1 .. Len(w_state) :
          /\ w_state[w] = "running"
          /\ w_pos[w] = Len(r_scripts[w])
          /\ w_state' = [w_state EXCEPT ![w] = "exited"]
    /\ UNCHANGED <<r_mode, r_scripts, r_master, master_pc, w_pos, r_parts,
                   merge_started, r_late, RunOthers>>

\* one iteration of the loops of collect_all_keywords_all_quarters
\* (lines 369-386)
CollectAllIteration ==
    /\ r_mode = "auto"
    /\ RunTask(1)
    /\ UNCHANGED <<r_mode, r_scripts, r_master, master_pc, w_state,
                   merge_started, RunOthers>>

\* collect_all_keywords_all_quarters returns; merge_all_parts() is called
AutoMerge ==
    /\ r_mode = "auto"
    /\ w_state[1] = "running"
    /\ w_pos[1] = Len(r_scripts[1])
    /\ w_state' = [w_state EXCEPT ![1] = "exited"]
    /\ merge_started' = TRUE
    /\ UNCHANGED <<r_mode, r_scripts, r_master, master_pc, w_pos, r_parts,
                   r_late, RunOthers>>

NextRun ==
    \/ SpawnWorker
    \/ Wait
    \/ StartMerge
    \/ WorkerTask
    \/ WorkerExit
    \/ CollectAllIteration
    \/ AutoMerge

SpecRun == InitRun /\ [][NextRun]_vars

-----------------------------------------------------------------------------
(***************************************************************************)
(* SpecStartup: one process of collect_news.py, from the loading of the    *)
(* module to its exit.  What the process does after the start is kept to   *)
(* its effects: search requests, part files, the merged file.              *)
(***************************************************************************)
EnvValues == {Absent, "", " ", "key"}

InitStartup ==
    /\ CLIENT_ID \in EnvValues
    /\ CLIENT_SECRET \in EnvValues
    /\ b_mode \in {"auto", "single", "all", "merge"}
    /\ bpc = "import"
    /\ b_requests = 0
    /\ b_files = {}
    /\ b_exit = -1
    /\ IdleQuarters /\ IdleEnv /\ IdleSearch /\ IdleCollect /\ IdlePhrase
    /\ IdleParts /\ IdleMerge /\ IdleScripts /\ IdleRun /\ IdleAll

StartupOthers ==
    <<qvars, envvars, svars, cvars, pvars, dvars, mvars, gvars, rvars, avars>>

\* lines 71-118: sys.exit(1) when a credential is missing, else the log
\* file is opened and the main block is reached
LoadModule ==
    /\ bpc = "import"
    /\ IF CredentialsMissing(CLIENT_ID, CLIENT_SECRET)
       THEN /\ b_exit' = 1
            /\ bpc' = "exited"
            /\ UNCHANGED b_files
       ELSE /\ b_files' = b_files \cup {"log"}
            /\ bpc' = "main"
            /\ UNCHANGED b_exit
    /\ UNCHANGED <<CLIENT_ID, CLIENT_SECRET, b_mode, b_requests, StartupOthers>>

\* requests.get of naver_search (line 152), reached in the collecting modes
SearchRequest ==
    /\ bpc = "main"
    /\ b_mode \in {"auto", "single", "all"}
    /\ b_requests < MaxRequests
    /\ b_requests' = b_requests + 1
    /\ UNCHANGED <<CLIENT_ID, CLIENT_SECRET, b_mode, bpc, b_files, b_exit,
                   StartupOthers>>

\* to_csv of collect_single_keyword_quarter (line 334), after a search
WritePartFile ==
    /\ bpc = "main"
    /\ b_mode \in {"auto", "single", "all"}
    /\ b_requests > 0
    /\ b_files' = b_files \cup {"part"}
    /\ UNCHANGED <<CLIENT_ID, CLIENT_SECRET, b_mode, bpc, b_requests, b_exit,
                   StartupOthers>>

\* to_csv of merge_all_parts (line 459), reached in modes auto and merge
WriteMergedFile ==
    /\ bpc = "main"
    /\ b_mode \in {"auto", "merge"}
    /\ b_files' = b_files \cup {"merged"}
    /\ UNCHANGED <<CLIENT_ID, CLIENT_SECRET, b_mode, bpc, b_requests, b_exit,
                   StartupOthers>>

\* the main block ends: status 0, or 1 after an exception nothing caught
ExitMain ==
    /\ bpc = "main"
    /\ b_exit' \in {0, 1}
    /\ bpc' = "exited"
    /\ UNCHANGED <<CLIENT_ID, CLIENT_SECRET, b_mode, b_requests, b_files,
                   StartupOthers>>

NextStartup ==
    \/ LoadModule
    \/ SearchRequest
    \/ WritePartFile
    \/ WriteMergedFile
    \/ ExitMain

SpecStartup == InitStartup /\ [][NextStartup]_vars

-----------------------------------------------------------------------------
(***************************************************************************)
(* collect_all_keywords_all_quarters (src/collect_news.py 341-394): the    *)
(* nested loop over keywords and quarters, each pair one call of           *)
(* collect_single_keyword_quarter inside a try, a sleep after every pair.  *)
(* SpecAll takes what fetch_news_in_quarter hands to its caller from a set *)
(* of results and repeats the call into one parts directory; SpecPaced     *)
(* pages through the search API with FirstPage and NextPage.               *)
(***************************************************************************)
MaxCalls == 2

\* lines 379-380: if filepath: saved_files.append(filepath)
SavedAfterMut(saved, r) == Append(saved, r.path)
SavedAfter(saved, r) ==
    IF r.kind = "path" THEN Append(saved, r.path) ELSE saved

\* line 386: time.sleep(api_delay * 5)
PairSleepEvent ==
    [op |-> "pair_sleep", start |-> 0, served |-> FALSE, count |-> 0]

AfterPairMut(evs) == evs
AfterPair(evs) == Append(evs, PairSleepEvent)

\* how the attempt of the pair at hand ended
Outcome ==
    [keyword |-> keyword, quarter |-> quarter.label, kind |-> ret.kind,
     path |-> ret.path, df |-> fetch_out.df]

AllOthers == <<envvars, qvars, svars, pvars, dvars, mvars, gvars, rvars, bvars>>

\* lines 369-377: the loops reach a pair and enter the try
BeginPair ==
    /\ apc = "loop"
    /\ a_ki <= Len(a_keywords)
    /\ a_qi <= Len(a_quarters)
    /\ current_task' = current_task + 1
    /\ keyword' = a_keywords[a_ki]
    /\ quarter' = a_quarters[a_qi]
    /\ cpc' = "call" /\ page' = 0 /\ pages' = 0 /\ items' = <<>>
    /\ framed' = <<>>
    /\ fetch_out' = [exc |-> "", df |-> <<>>]
    /\ ret' = RetPending
    /\ apc' = "pair"
    /\ UNCHANGED <<exact_phrase_match, events, parts, a_keywords, a_quarters,
                   a_ki, a_qi, saved_files, attempted, last_outcome, a_run,
                   AllOthers>>

\* lines 379-386: the call has returned or raised; the except clause logs,
\* the sleep follows either way, and the loops move on
EndPair ==
    /\ apc = "pair"
    /\ cpc = "done"
    /\ saved_files' = SavedAfter(saved_files, ret)
    /\ attempted' = Append(attempted, Outcome)
    /\ last_outcome' =
          {o \in last_outcome :
              ~(o.keyword = keyword /\ o.quarter = quarter.label)}
          \cup {Outcome}
    /\ events' = AfterPair(events)
    /\ IF a_qi < Len(a_quarters)
       THEN a_qi' = a_qi + 1 /\ a_ki' = a_ki
       ELSE a_qi' = 1 /\ a_ki' = a_ki + 1
    /\ cpc' = "idle"
    /\ apc' = "loop"
    /\ UNCHANGED <<exact_phrase_match, keyword, quarter, page, pages, items,
                   framed, fetch_out, ret, parts, a_keywords, a_quarters,
                   current_task, a_run, AllOthers>>

\* lines 388-394: both loops are over
ReturnSavedFiles ==
    /\ apc = "loop"
    /\ a_ki > Len(a_keywords) \/ Len(a_quarters) = 0
    /\ apc' = "returned"
    /\ UNCHANGED <<cvars, a_keywords, a_quarters, a_ki, a_qi, current_task,
                   saved_files, attempted, last_outcome, a_run, AllOthers>>

\* what fetch_news_in_quarter hands to line 307: an exception, an empty
\* frame, or a frame of normalized rows
FetchResults ==
    { [exc |-> "TypeError", df |-> <<>>], [exc |-> "", df |-> <<>>] }
    \cup {[exc |-> "", df |-> <<Normalize(a)>>] :
             a \in {x \in Articles : x.link \in {"u1", "u3"}}}

\* lines 307-337 around a fetch_news_in_quarter that ends as fetched
FetchReturns ==
    /\ apc = "pair"
    /\ cpc = "call"
    /\ \E fetched \in FetchResults :
          /\ fetch_out' = fetched
          /\ ret' = CollectTail(fetched, keyword, quarter,
                                exact_phrase_match, parts).ret
          /\ parts' = CollectTail(fetched, keyword, quarter,
                                  exact_phrase_match, parts).parts
    /\ cpc' = "done"
    /\ UNCHANGED <<exact_phrase_match, keyword, quarter, page, pages, items,
                   events, framed, avars, AllOthers>>

\* lines 515-522, 529-534: the program is run again with the same
\* configuration and parts directory
RunAgain ==
    /\ apc = "returned"
    /\ a_run < MaxCalls
    /\ a_run' = a_run + 1
    /\ a_ki' = 1 /\ a_qi' = 1
    /\ current_task' = 0
    /\ saved_files' = <<>>
    /\ attempted' = <<>>
    /\ apc' = "loop"
    /\ UNCHANGED <<cvars, a_keywords, a_quarters, last_outcome, AllOthers>>

AllKeywordLists == { << <<"a", "b">> >>, << <<"a", "b">>, <<"a">> >> }

\* generate_quarterly_ranges(start_year) on May 10 of MinYear
AllQuarterLists ==
    {generate_quarterly_ranges(sy, <<>>, <<MinYear, 5, 10, 1>>) :
        sy \in {MinYear, MinYear + 1}}

InitLoop ==
    /\ a_keywords \in AllKeywordLists
    /\ a_quarters \in AllQuarterLists
    /\ a_ki = 1 /\ a_qi = 1
    /\ current_task = 0
    /\ saved_files = <<>>
    /\ attempted = <<>>
    /\ last_outcome = {}
    /\ a_run = 1
    /\ apc = "loop"
    /\ IdleQuarters /\ IdleSearch /\ IdlePhrase /\ IdleParts
    /\ IdleMerge /\ IdleScripts /\ IdleRun /\ IdleStartup

InitAll == InitLoop /\ IdleEnv /\ IdleCollect

NextAll ==
    \/ BeginPair
    \/ FetchReturns
    \/ EndPair
    \/ ReturnSavedFiles
    \/ RunAgain

SpecAll == InitAll /\ [][NextAll]_vars

\* the interpreter runs the loop until it returns
SpecAllFair == SpecAll /\ WF_vars(NextAll)

PacedFeeds ==
    {f \in Feeds : \A i \in 1 .. Len(f) : f[i].link \in {"u1", "u2"}}

InitPaced ==
    /\ InitLoop
    /\ display = 1
    /\ max_items \in 1 .. 2
    /\ retry_count \in 0 .. 1
    /\ feed \in PacedFeeds
    /\ IdleCollect

NextPaced ==
    \/ BeginPair
    \/ FirstPage
    \/ NextPage
    \/ EndPair
    \/ ReturnSavedFiles

SpecPaced == InitPaced /\ [][NextPaced]_vars

-----------------------------------------------------------------------------
(***************************************************************************)
(* Properties of generate_quarterly_ranges, checked under SpecQuarters.    *)
(***************************************************************************)
\* a <= b on "YYYY-MM-DD" dates
DateLE(a, b) == a = b \/ DateLT(a, b)

Today == Strftime(now)

\* the i-th quarter counted from Q1 of start_year: its year, its number 1..4,
\* and the last calendar day of its final month
NthYear(i) == start_year + ((i - 1) \div 4)
NthQuarter(i) == ((i - 1) % 4) + 1
NthLastDay(i) ==
    <<NthYear(i), 3 * NthQuarter(i), DaysInMonth(NthYear(i), 3 * NthQuarter(i))>>
NthLabel(i) ==
    Str(NthYear(i)) \o <<"_", "Q">> \o Str(NthQuarter(i))

\* C1: for start_year <= current year, every returned range has
\* start_date <= end_date, and each range starts after the previous one ends.
C1_RangesOrdered ==
    (qpc = "returned" /\ start_year <= now[1]) =>
        /\ \A i \in 1 .. Len(quarters) :
               DateLE(quarters[i].start_date, quarters[i].end_date)
        /\ \A i \in 1 .. Len(quarters) - 1 :
               DateLT(quarters[i].end_date, quarters[i + 1].start_date)

C1_Witness ==
    /\ qpc = "returned"
    /\ start_year < now[1]
    /\ Len(quarters) >= 5
    /\ quarters[Len(quarters)].end_date = Today
    /\ now[2] = 2 /\ now[3] = 15

\* C2: no returned range ends after "now"; the range of the quarter that
\* contains "now" ends on the date of "now"; no range starts after "now";
\* now = 2022-02-15 yields only 2022_Q1 = Jan 1 to Feb 15.
C2_NeverPastNow ==
    /\ qpc = "returned" =>
        \A i \in 1 .. Len(quarters) :
            /\ DateLE(quarters[i].end_date, Today)
            /\ DateLE(quarters[i].start_date, Today)
            /\ (DateLE(quarters[i].start_date, Today)
                  /\ DateLE(Today, <<quarters[i].start_date[1],
                                      quarters[i].start_date[2] + 2, 31>>))
               => quarters[i].end_date = Today
    /\ generate_quarterly_ranges(2022, <<>>, <<2022, 2, 15, 1>>)
         = << [label      |-> <<"2", "0", "2", "2", "_", "Q", "1">>,
               start_date |-> <<2022, 1, 1>>,
               end_date   |-> <<2022, 2, 15>>] >>

C2_Witness ==
    /\ qpc = "returned"
    /\ end_year # <<>> /\ end_year[1] > now[1]
    /\ Len(quarters) >= 2
    /\ quarters[Len(quarters)].end_date = Today
    /\ now[2] \in {1, 4, 7, 10} /\ now[3] = 1 /\ now[4] = 0

\* C3: with the default end year the result is exactly the quarters from
\* start_year Q1 through the quarter containing "now", in order: the first
\* starts on Jan 1 of start_year, each later one starts the day after the
\* previous one ends, every completed quarter ends on the last day of its
\* final month, and there are at most 4 x (number of years) entries.
C3_CoversThroughNow ==
    (qpc = "returned" /\ end_year = <<>>) =>
        /\ Len(quarters) =
             IF start_year > now[1] THEN 0
             ELSE 4 * (now[1] - start_year) + ((now[2] - 1) \div 3) + 1
        /\ \A i \in 1 .. Len(quarters) :
              /\ quarters[i].label = NthLabel(i)
              /\ quarters[i].start_date =
                    IF i = 1 THEN <<start_year, 1, 1>>
                    ELSE DayAfter(quarters[i - 1].end_date)
              /\ quarters[i].end_date =
                    IF i < Len(quarters) \/ DateLE(NthLastDay(i), Today)
                    THEN NthLastDay(i) ELSE Today
        /\ start_year <= now[1] =>
              Len(quarters) <= 4 * (now[1] - start_year + 1)

C3_Witness ==
    /\ qpc = "returned"
    /\ end_year = <<>>
    /\ start_year < now[1]
    /\ Len(quarters) >= 7
    /\ quarters[4].end_date = <<start_year, 12, 31>>
    /\ quarters[5].start_date = <<start_year + 1, 1, 1>>
    /\ DateLT(quarters[Len(quarters)].end_date, NthLastDay(Len(quarters)))

-----------------------------------------------------------------------------
(***************************************************************************)
(* Properties of naver_search, checked under SpecSearch.                   *)
(***************************************************************************)
EveryAttemptFailed ==
    \A k \in 1 .. retry_count : s_responses[k].status # "ok"

\* C4: for every retry count and every pattern of failures the call returns
\* a value carrying total and items, and when every attempt fails that value
\* is exactly total = 0, items = [].
C4_AlwaysAResult ==
    spc = "returned" =>
        /\ {"total", "items"} \subseteq DOMAIN search_ret
        /\ EveryAttemptFailed => search_ret = EmptyResult

\* C4, for retry_count >= 1 only: the same statement holds.
C4_WithAnAttempt ==
    (spc = "returned" /\ retry_count >= 1) =>
        /\ {"total", "items"} \subseteq DOMAIN search_ret
        /\ EveryAttemptFailed => search_ret = EmptyResult
        /\ ~EveryAttemptFailed => search_ret = ApiBody(feed, s_start, display)

-----------------------------------------------------------------------------
(***************************************************************************)
(* Properties of fetch_news_in_quarter and collect_single_keyword_quarter, *)
(* checked under SpecCollect.                                              *)
(***************************************************************************)
SearchEvents == SelectSeq(events, LAMBDA e : e.op = "search")

\* every naver_search call so far returned the API's page for its offset
AllServed == \A k \in 1 .. Len(SearchEvents) : SearchEvents[k].served

\* ceil(m / d): the least n with n * d >= m
CeilDiv(m, d) == CHOOSE n \in 0 .. m : n * d >= m /\ (n = 0 \/ (n - 1) * d < m)

\* C5: the raw items handed to normalization never number more than
\* max_items_per_query, and when the API offers more than the cap (and
\* serves every page) they number exactly max_items_per_query.
C5_NeverMoreThanCap ==
    framed # <<>> =>
        /\ Len(framed[1]) <= max_items
        /\ (Len(feed) > max_items /\ AllServed) => Len(framed[1]) = max_items

\* C5, for a page size that does not exceed the cap: the same statement.
C5_WhenPageFitsCap ==
    (framed # <<>> /\ display <= max_items) =>
        /\ Len(framed[1]) <= max_items
        /\ (Len(feed) > max_items /\ AllServed) => Len(framed[1]) = max_items

\* C6: when every requested page is served, the call requests exactly
\* ceil(min(total, cap) / page_size) pages, at offsets 1, page_size + 1,
\* 2 * page_size + 1, ... in that order (3 pages for 250/100/1000, 10 for
\* 5000/100/1000); when the first page reports total = 0, exactly one
\* request is made and the result is empty.
C6_PagesRequested ==
    /\ (cpc = "done" /\ AllServed) =>
          IF Len(feed) = 0
          THEN /\ Len(SearchEvents) = 1
               /\ SearchEvents[1].start = 1
               /\ fetch_out = [exc |-> "", df |-> <<>>]
               /\ ret = RetNone
          ELSE /\ Len(SearchEvents) = CeilDiv(Min(Len(feed), max_items), display)
               /\ \A k \in 1 .. Len(SearchEvents) :
                     SearchEvents[k].start = (k - 1) * display + 1
    /\ PagesNeeded(TotalToFetch(250, 1000), 100) = 3
    /\ PagesNeeded(TotalToFetch(5000, 1000), 100) = 10

C6_Witness ==
    /\ cpc = "done"
    /\ AllServed
    /\ Len(feed) = 3 /\ display = 1 /\ max_items = 2
    /\ Len(SearchEvents) = 2
    /\ SearchEvents[2].start = 2
    /\ Len(framed[1]) = 2

\* the publish date of a normalized row lies in the quarter:
\* start_date 00:00 <= t < end_date + 1 day
InQuarter(row, q) ==
    /\ row.date.fmt = "rfc822"
    /\ DateLE(q.start_date, row.date.day)
    /\ DateLE(row.date.day, q.end_date)

\* the normalized rows of its whose publish date lies in the quarter
RowsInQuarter(its, q) ==
    SelectSeq(NormalizeAll(its), LAMBDA r : InQuarter(r, q))

\* C7: the records fetch_news_in_quarter returns are exactly the normalized
\* fetched records whose publish timestamp lies in the quarter; a record
\* whose date does not parse is left out, and no error is raised.
C7_ReturnsRowsInQuarter ==
    framed # <<>> =>
        fetch_out = [exc |-> "", df |-> RowsInQuarter(framed[1], quarter)]

\* the rows of the quarter that pass the exact-phrase filter
RowsToWrite ==
    LET collected == IF framed = <<>> THEN <<>>
                     ELSE RowsInQuarter(framed[1], quarter)
        Matches(r) == \/ ~exact_phrase_match
                      \/ Contains(r.title, keyword)
                      \/ Contains(r.description, keyword)
    IN  SelectSeq(collected, Matches)

\* C9: the call writes no file and returns None when the collected set, or
\* what the exact-phrase filter leaves of it, is empty; otherwise it writes
\* one part file whose records all carry the pair's keyword and quarter
\* label, and returns its path.
C9_WritesIffRecords ==
    cpc = "done" =>
        IF RowsToWrite = <<>>
        THEN ret = RetNone /\ parts = {}
        ELSE /\ ret.kind = "path"
             /\ \E f \in parts :
                   /\ parts = {f}
                   /\ f.path = ret.path
                   /\ Len(f.rows) = Len(RowsToWrite)
                   /\ \A i \in 1 .. Len(f.rows) :
                         /\ f.rows[i].keyword = keyword
                         /\ f.rows[i].quarter = quarter.label
                         /\ f.rows[i].url = RowsToWrite[i].url

-----------------------------------------------------------------------------
(***************************************************************************)
(* Properties of filter_exact_phrase, checked under SpecPhrase.            *)
(***************************************************************************)
\* phrase stands in text, character for character, from some offset on
HasPhrase(text, phrase) ==
    \E off \in 0 .. Len(text) :
        /\ off + Len(phrase) <= Len(text)
        /\ \A j \in 1 .. Len(phrase) : text[off + j] = phrase[j]

\* the rows of p_df whose title or description holds the phrase
MatchingRows ==
    {i \in 1 .. Len(p_df) :
        HasPhrase(p_df[i].title, p_phrase) \/ HasPhrase(p_df[i].description, p_phrase)}

\* the k-th smallest member of a set of row numbers
Kth(S, k) == CHOOSE i \in S : Cardinality({j \in S : j <= i}) = k

\* the titles of scenario 4, one letter per syllable:
\* "CD GM HS" (phrase split by a space) and "CDG OI" (phrase contiguous)
SplitTitle == [title |-> <<"C", "D", " ", "G", "M", " ", "H", "S">>,
               description |-> <<>>]
WholeTitle == [title |-> <<"C", "D", "G", " ", "O", "I">>, description |-> <<>>]

\* C8: filter_exact_phrase returns, in their order, exactly the records
\* whose title or description holds the phrase as a contiguous,
\* case-sensitive substring; with exact-phrase matching disabled it returns
\* its input unchanged.
C8_KeepsExactlyMatches ==
    /\ ppc = "returned" =>
          IF p_epm
          THEN /\ Len(p_out) = Cardinality(MatchingRows)
               /\ \A k \in 1 .. Len(p_out) : p_out[k] = p_df[Kth(MatchingRows, k)]
          ELSE p_out = p_df
    /\ filter_exact_phrase(<<SplitTitle, WholeTitle>>, <<"C", "D", "G">>, TRUE)
          = <<WholeTitle>>
    /\ filter_exact_phrase(<<SplitTitle, WholeTitle>>, <<"C", "D", "G">>, FALSE)
          = <<SplitTitle, WholeTitle>>

C8_Witness ==
    /\ ppc = "returned"
    /\ p_epm
    /\ p_phrase = <<"a", "b">>
    /\ Len(p_df) = 2
    /\ p_df[1].title = <<"a", " ", "b">> /\ p_df[1].description = <<"A", "b">>
    /\ p_df[2].title = <<>> /\ p_df[2].description = <<"x", "a", "b">>
    /\ p_out = <<p_df[2]>>

-----------------------------------------------------------------------------
(***************************************************************************)
(* Properties of the part files, checked under SpecParts.                  *)
(***************************************************************************)
\* the pairs that have been written, and the last run of a pair
PairsRun == {d_hist[i].pair : i \in 1 .. Len(d_hist)}

LastRun(pair) ==
    d_hist[CHOOSE i \in 1 .. Len(d_hist) :
              /\ d_hist[i].pair = pair
              /\ \A j \in i + 1 .. Len(d_hist) : d_hist[j].pair # pair]

FilesOf(pair) ==
    {f \in d_parts : \E i \in 1 .. Len(f.rows) :
        f.rows[i].keyword = pair[1] /\ f.rows[i].quarter = pair[2]}

\* C10: the parts directory holds at most one file per (keyword, quarter)
\* pair, a re-run of a pair replacing that pair's file, and two distinct
\* pairs of configured keywords and generated quarter labels never map to
\* the same file.
C10_OneFilePerPair ==
    /\ \A pair \in PartPairs : Cardinality(FilesOf(pair)) <= 1
    /\ \A pair \in PairsRun :
          \E f \in d_parts :
             /\ FilesOf(pair) = {f}
             /\ f.path = LastRun(pair).ret.path
             /\ Len(f.rows) = Len(LastRun(pair).df)
             /\ \A i \in 1 .. Len(f.rows) : f.rows[i].url = LastRun(pair).df[i].url
    /\ Cardinality(d_parts) = Cardinality(PairsRun)
    /\ \A p1, p2 \in PartPairs :
          p1 # p2 => PartFilePath(output_dir, p1[1], p1[2])
                        # PartFilePath(output_dir, p2[1], p2[2])

C10_Witness ==
    /\ Len(d_hist) = 3
    /\ d_hist[1].pair = d_hist[3].pair
    /\ d_hist[1].df # d_hist[3].df
    /\ d_hist[2].pair[1] = d_hist[1].pair[1]
    /\ d_hist[2].pair[2] # d_hist[1].pair[2]
    /\ Cardinality(d_parts) = 2

-----------------------------------------------------------------------------
(***************************************************************************)
(* Properties of merge_all_parts, checked under SpecMerge.                 *)
(***************************************************************************)
\* the i-th listed file is a part file that loads
Loads(i) == m_listing[i].ext = "csv" /\ m_listing[i].loads

NoneLoads == \A i \in 1 .. Len(m_listing) : ~Loads(i)

\* the number of rows of the files that load among the first i listed
RECURSIVE RowsUpTo(_)
RowsUpTo(i) ==
    IF i = 0 THEN 0
    ELSE RowsUpTo(i - 1) + (IF Loads(i) THEN Len(m_listing[i].rows) ELSE 0)

\* the frame holds the records of the files that load, file after file in
\* the order listed, each file's records in the file's order
HoldsLoadedRecords(df) ==
    /\ Len(df) = RowsUpTo(Len(m_listing))
    /\ \A i \in 1 .. Len(m_listing) :
          Loads(i) =>
             \A j \in 1 .. Len(m_listing[i].rows) :
                df[RowsUpTo(i - 1) + j] = ReadCsv(m_listing[i].rows)[j]

\* the first row of df with the key of row i
FirstWithKey(df, i) ==
    CHOOSE f \in 1 .. i :
        /\ df[f][dup_column] = df[i][dup_column]
        /\ \A g \in 1 .. f - 1 : df[g][dup_column] # df[i][dup_column]

\* out keeps, of the rows of df, the first of every key value, in df's order
KeepsFirstOfEachKey(df, out) ==
    /\ \A k1, k2 \in 1 .. Len(out) :
          k1 # k2 => out[k1][dup_column] # out[k2][dup_column]
    /\ \A i \in 1 .. Len(df) :
          \E k \in 1 .. Len(out) : out[k] = df[FirstWithKey(df, i)]
    /\ \E pos \in [1 .. Len(out) -> 1 .. Len(df)] :
          /\ \A k \in 1 .. Len(out) :
                out[k] = df[pos[k]] /\ FirstWithKey(df, pos[k]) = pos[k]
          /\ \A k \in 1 .. Len(out) - 1 : pos[k] < pos[k + 1]

MergedWritten == mpc # "call" /\ m_ret = MergePath

\* C11 as stated: the merged output keeps the first-encountered record of
\* every key value of the concatenated part files, and the removed-count is
\* rows before minus rows after.
C11_DedupKeepsFirst ==
    MergedWritten =>
        /\ HoldsLoadedRecords(m_all[1])
        /\ KeepsFirstOfEachKey(ToCsv(m_all[1]), m_output.rows)
        /\ m_removed # <<>> =>
              m_removed = <<Len(m_all[1]) - Len(m_output.rows)>>

\* C11, when filtering.remove_duplicates is on: the same statement.
C11_DedupKeepsFirstWhenOn ==
    (MergedWritten /\ remove_duplicates) =>
        /\ HoldsLoadedRecords(m_all[1])
        /\ KeepsFirstOfEachKey(ToCsv(m_all[1]), m_output.rows)
        /\ m_removed = <<Len(m_all[1]) - Len(m_output.rows)>>

C11_Witness ==
    /\ MergedWritten /\ remove_duplicates /\ dup_column = "url"
    /\ Len(m_listing) = 2
    /\ m_listing[1].rows = <<PartRow("u1", "a", "d"), PartRow("u2", "a", "")>>
    /\ m_listing[2].rows = <<PartRow("u1", "b", "d"), PartRow("u3", "b", "NA")>>
    /\ m_removed = <<1>>
    /\ m_output.rows = <<PartRow("u1", "a", "d"), PartRow("u2", "a", ""),
                         PartRow("u3", "b", "")>>

\* C12: a merge for which no part file loads leaves the file at the merged
\* path as it was: neither created nor modified.
C12_NoOutputWhenNoneLoads ==
    [][(mpc = "call" /\ NoneLoads) => m_output' = m_output]_vars

C12_Witness ==
    /\ mpc = "returned"
    /\ Len(m_listing) = 2
    /\ \A i \in 1 .. 2 : m_listing[i].ext = "csv" /\ ~m_listing[i].loads
    /\ m_ret = MergeNone
    /\ m_output = OldMerged

\* C13: a merge for which no part file loads ends the process with a
\* non-zero exit status.
C13_NonZeroExitWhenNoneLoads ==
    (mpc = "exited" /\ NoneLoads) => exit_status # 0

\* C14: when at least one part file loads, the merged file is written, and
\* the frame before deduplication holds exactly the records of the files
\* that loaded, wherever the failing files stand in the listing.
C14_SkipsFailingFiles ==
    (mpc # "call" /\ ~NoneLoads) =>
        /\ m_ret = MergePath
        /\ m_output.exists
        /\ Len(m_all) = 1
        /\ HoldsLoadedRecords(m_all[1])
        /\ ~remove_duplicates => m_output.rows = ToCsv(m_all[1])

C14_Witness ==
    /\ mpc = "returned"
    /\ Len(m_listing) = 3
    /\ m_listing[1].ext = "csv" /\ ~m_listing[1].loads
    /\ Loads(2) /\ Len(m_listing[2].rows) = 2
    /\ m_listing[3].ext = "csv" /\ ~m_listing[3].loads
    /\ m_ret = MergePath
    /\ Len(m_all[1]) = 2

\* the orders in which a directory of n files can be listed
Perms(n) == {p \in [1 .. n -> 1 .. n] : \A i, j \in 1 .. n : p[i] = p[j] => i = j}

Permuted(listing, p) == [i \in 1 .. Len(listing) |-> listing[p[i]]]

\* the merged file left by merging the first k files of a listing and then
\* merging that merged file, read before or after them, with the other files
TwoStep(listing, k, front) ==
    LET first  == merge_all_parts(TRUE, SubSeq(listing, 1, k),
                                  remove_duplicates, dup_column, AbsentFile)
        rest   == SubSeq(listing, k + 1, Len(listing))
        merged == [ext |-> "csv", loads |-> TRUE, rows |-> first.output.rows]
        again  == IF ~first.output.exists THEN rest
                  ELSE IF front THEN <<merged>> \o rest
                  ELSE rest \o <<merged>>
    IN  merge_all_parts(TRUE, again, remove_duplicates, dup_column,
                        first.output).output

Count(seq, r) == Cardinality({i \in 1 .. Len(seq) : seq[i] = r})

SameRecords(s, t) ==
    \A r \in {s[i] : i \in 1 .. Len(s)} \cup {t[i] : i \in 1 .. Len(t)} :
        Count(s, r) = Count(t, r)

\* the dedup key identifies one logical record: two loaded records with the
\* same key value are the same record
KeyIdentifiesRecord ==
    \A x, y \in 1 .. Len(m_all[1]) :
        m_all[1][x][dup_column] = m_all[1][y][dup_column]
            => m_all[1][x] = m_all[1][y]

\* C15: when the dedup key identifies one logical record, merging some of
\* the files first and then the result with the others leaves the same
\* records as merging all of them directly, in whatever order the files are
\* read.
C15_MergeOrderInsensitive ==
    (mpc = "returned" /\ m_ret = MergePath /\ KeyIdentifiesRecord) =>
        \A p \in Perms(Len(m_listing)), k \in 0 .. Len(m_listing),
           front \in BOOLEAN :
            LET out == TwoStep(Permuted(m_listing, p), k, front)
            IN  out.exists /\ SameRecords(out.rows, m_output.rows)

C15_Witness ==
    /\ MergedWritten /\ KeyIdentifiesRecord
    /\ remove_duplicates /\ dup_column = "url"
    /\ Len(m_listing) = 3
    /\ m_listing[1].rows = <<PartRow("u1", "a", "d"), PartRow("u2", "a", "")>>
    /\ m_listing[2].rows = <<PartRow("u3", "b", "NA")>>
    /\ m_listing[3].rows = <<PartRow("u2", "a", "")>>
    /\ m_removed = <<1>>
    /\ Len(m_output.rows) = 3

-----------------------------------------------------------------------------
(***************************************************************************)
(* Properties of generate_parallel_scripts, checked under SpecScripts.     *)
(***************************************************************************)
\* the places (worker script, line) at which task t stands
PlacesOf(t) ==
    {<<w, j>> \in (1 .. Len(g_scripts)) \X (1 .. Len(g_tasks)) :
        j <= Len(g_scripts[w].tasks) /\ g_scripts[w].tasks[j] = g_tasks[t]}

\* C16: the worker scripts split the task list: there is one script per
\* worker, every script holds tasks of the list only, and every (keyword,
\* quarter) task stands in exactly one script, once.
C16_SlicesPartitionTasks ==
    gpc = "returned" =>
        /\ Len(g_tasks) = Len(g_keywords) * Len(TaskQuarters(g_start_year, g_now))
        /\ Len(g_scripts) = num_workers
        /\ \A w \in 1 .. Len(g_scripts) :
              \A j \in 1 .. Len(g_scripts[w].tasks) :
                 \E t \in 1 .. Len(g_tasks) : g_scripts[w].tasks[j] = g_tasks[t]
        /\ \A t \in 1 .. Len(g_tasks) : Cardinality(PlacesOf(t)) = 1
        /\ \A w1, w2 \in 1 .. Len(g_scripts) :
              w1 # w2 => g_scripts[w1].filename # g_scripts[w2].filename

C16_Witness ==
    /\ gpc = "returned"
    /\ num_workers = 3
    /\ Len(g_tasks) = 8
    /\ Len(g_scripts[1].tasks) = 2
    /\ Len(g_scripts[2].tasks) = 2
    /\ Len(g_scripts[3].tasks) = 4

\* fewer tasks than workers: the last script holds them all
C16_WitnessFewTasks ==
    /\ gpc = "returned"
    /\ num_workers = 3
    /\ Len(g_tasks) = 2
    /\ Len(g_scripts[1].tasks) = 0
    /\ Len(g_scripts[3].tasks) = 2

-----------------------------------------------------------------------------
(***************************************************************************)
(* Properties of a collection run followed by the merge, checked under     *)
(* SpecRun.                                                                *)
(***************************************************************************)
AllTasksFinished ==
    \A w \in 1 .. Len(w_state) :
        w_state[w] = "exited" /\ w_pos[w] = Len(r_scripts[w])

\* C17: once the merge has started, every collecting process has finished
\* all of its tasks, and no part file has been written since.
C17_MergeAfterCollection ==
    merge_started => (AllTasksFinished /\ r_late = {})

C17_Witness ==
    /\ r_mode = "workers"
    /\ merge_started
    /\ Len(w_state) = 3
    /\ Len(r_scripts[1]) = 1 /\ Len(r_scripts[3]) = 2
    /\ Cardinality(r_parts) = 4

\* the same for a run without arguments
C17_WitnessAuto ==
    /\ r_mode = "auto"
    /\ merge_started
    /\ Cardinality(r_parts) = 4

-----------------------------------------------------------------------------
(***************************************************************************)
(* Properties of the start of collect_news.py, checked under SpecStartup.  *)
(***************************************************************************)
AbsentOrEmpty(v) == v = Absent \/ v = ""

\* C18: with the client id or the client secret absent or empty, the
\* process issues no search request and writes no part file and no merged
\* file, and it exits with a non-zero status as its first step.
C18_RefusesToStart ==
    (AbsentOrEmpty(CLIENT_ID) \/ AbsentOrEmpty(CLIENT_SECRET)) =>
        /\ b_requests = 0
        /\ b_files = {}
        /\ bpc \in {"import", "exited"}
        /\ bpc = "exited" => b_exit = 1

C18_Witness ==
    /\ CLIENT_ID = "key"
    /\ CLIENT_SECRET = ""
    /\ bpc = "exited"
    /\ b_exit = 1
    /\ b_requests = 0
    /\ b_files = {}

-----------------------------------------------------------------------------
(***************************************************************************)
(* Further properties of fetch_news_in_quarter (SpecCollect) and of        *)
(* naver_search (SpecSearch).                                              *)
(***************************************************************************)
\* the k-th search of the call is a page after the first that came back
\* with no items
EmptyLaterPage(k) ==
    /\ k \in 2 .. Len(SearchEvents)
    /\ SearchEvents[k].count = 0

\* the items of the pages before the k-th
ItemsBeforePage(k) == SubSeq(feed, 1, Min((k - 1) * display, Len(feed)))

\* C19: when a page after the first comes back with no items, no further
\* page is requested, the items of the earlier pages are kept and framed,
\* and the call raises no error.
C19_EmptyPageEndsQuietly ==
    \A k \in 1 .. Len(SearchEvents) :
        (cpc = "done" /\ EmptyLaterPage(k)) =>
            /\ k = Len(SearchEvents)
            /\ framed = <<ItemsBeforePage(k)>>
            /\ fetch_out.exc = ""
            /\ ret.kind # "raised"

\* C19 without its last part: the paging stops and the items are kept.
C19_EmptyPageEndsPaging ==
    \A k \in 1 .. Len(SearchEvents) :
        (cpc = "done" /\ EmptyLaterPage(k)) =>
            /\ k = Len(SearchEvents)
            /\ framed = <<ItemsBeforePage(k)>>

\* a call whose second page degraded to the empty result and whose first
\* page held no parseable date: it ends quietly
C19_WitnessQuiet ==
    /\ cpc = "done"
    /\ EmptyLaterPage(2)
    /\ Len(framed[1]) = display
    /\ fetch_out = [exc |-> "", df |-> <<>>]
    /\ ret = RetNone

Gets == SelectSeq(search_log, LAMBDA e : e = "get")

\* the attempt that succeeds first, or retry_count + 1 when none does
FirstOk ==
    CHOOSE k \in 1 .. retry_count + 1 :
        /\ k <= retry_count => s_responses[k].status = "ok"
        /\ \A j \in 1 .. k - 1 : s_responses[j].status # "ok"

\* C20: a call makes at most retry_count requests, none after the first
\* that succeeds, sleeps once between two consecutive requests, and does
\* not sleep after its last request.
C20_BoundedAttempts ==
    spc = "returned" =>
        /\ Len(Gets) <= retry_count
        /\ Len(Gets) = Min(FirstOk, retry_count)
        /\ Len(search_log) = IF Len(Gets) = 0 THEN 0 ELSE 2 * Len(Gets) - 1
        /\ \A i \in 1 .. Len(search_log) :
              search_log[i] = IF i % 2 = 1 THEN "get" ELSE "sleep"

C20_Witness ==
    /\ spc = "returned"
    /\ retry_count = 2
    /\ s_responses[1].status = "Timeout"
    /\ s_responses[2].status = "HTTPError"
    /\ search_log = <<"get", "sleep", "get">>
    /\ search_ret = EmptyResult

-----------------------------------------------------------------------------
(***************************************************************************)
(* Properties of collect_all_keywords_all_quarters, checked under SpecAll  *)
(* (with fairness for termination) and SpecPaced.                          *)
(***************************************************************************)
TotalPairs == Len(a_keywords) * Len(a_quarters)

\* the t-th pair in keyword-major order, quarters as generated
PairAt(t) ==
    [keyword |-> a_keywords[((t - 1) \div Len(a_quarters)) + 1],
     quarter |-> a_quarters[((t - 1) % Len(a_quarters)) + 1].label]

\* the attempt found records holding its keyword and did not raise
ProducedFile(o) ==
    /\ o.kind # "raised"
    /\ \E i \in 1 .. Len(o.df) :
          HasPhrase(o.df[i].title, o.keyword)
          \/ HasPhrase(o.df[i].description, o.keyword)

\* the paths of the attempts among the first n that produced a file
RECURSIVE ProducedPaths(_)
ProducedPaths(n) ==
    IF n = 0 THEN <<>>
    ELSE IF ProducedFile(attempted[n])
         THEN Append(ProducedPaths(n - 1),
                     PartFilePath(output_dir, attempted[n].keyword,
                                  attempted[n].quarter))
         ELSE ProducedPaths(n - 1)

C21_AttemptsInOrder ==
    /\ Len(attempted) <= TotalPairs
    /\ \A t \in 1 .. Len(attempted) :
          /\ attempted[t].keyword = PairAt(t).keyword
          /\ attempted[t].quarter = PairAt(t).quarter
    /\ saved_files = ProducedPaths(Len(attempted))
    /\ \A i \in 1 .. Len(saved_files) : \E f \in parts : f.path = saved_files[i]
    /\ (apc = "returned" => Len(attempted) = TotalPairs)

\* C21: collect_all_keywords_all_quarters returns, having attempted every
\* (keyword, quarter) pair once, keyword by keyword and quarter by quarter in
\* the generated order, whatever the earlier pairs did (no data, an error, a
\* file), and saved_files holds the paths of exactly the pairs that produced
\* a part file, each of them present in the parts directory.
C21_AttemptsEveryPairAndReturns ==
    /\ []C21_AttemptsInOrder
    /\ (apc # "returned") ~> (apc = "returned")

\* a call has returned after a pair that raised, a pair without data and a
\* pair that wrote its file, in this order
C21_Witness ==
    /\ apc = "returned"
    /\ TotalPairs = 4
    /\ attempted[1].kind = "raised"
    /\ attempted[2].kind = "None"
    /\ attempted[3].kind = "path"
    /\ Len(saved_files) = 1

\* the places of the log that hold a call of naver_search
Requests == {i \in 1 .. Len(events) : events[i].op = "search"}

\* C22: the one thread of a collection process makes its page requests one
\* after the other and sleeps between them: each request of a later page
\* directly follows the sleep of api_delay, and the first request of every
\* pair but the first directly follows the sleep made after the pair before
\* it (api_delay * 5), whether that pair returned or raised.
C22_SleepBeforeEveryLaterRequest ==
    \A i \in Requests :
        /\ i > 1 => events[i - 1].op # "search"
        /\ events[i].start > 1 => i > 1 /\ events[i - 1] = SleepEvent
        /\ (events[i].start = 1 /\ i > 1) => events[i - 1] = PairSleepEvent

\* a returned call in which a second page was requested, a later pair made
\* its first request, and a pair other than the last raised
C22_Witness ==
    /\ apc = "returned"
    /\ \E i \in Requests : events[i].start = 2
    /\ \E i \in Requests : i > 1 /\ events[i].start = 1
    /\ \E t \in 1 .. Len(attempted) - 1 : attempted[t].kind = "raised"
    /\ Cardinality(Requests) >= 5

\* the part file of the pair of outcome o, if the parts directory holds one
PartFileOf(o) ==
    {f \in parts : f.path = PartFilePath(output_dir, o.keyword, o.quarter)}

C23_LastWriteStands ==
    apc \in {"loop", "returned"} =>
        \A o \in last_outcome : o.kind = "path" =>
            \E f \in PartFileOf(o) :
                /\ PartFileOf(o) = {f}
                /\ f.path = o.path
                /\ Len(f.rows) = Len(o.df)
                /\ \A i \in 1 .. Len(f.rows) : f.rows[i].url = o.df[i].url

=============================================================================
